---- MODULE Spec2Model ----
(***************************************************************************)
(* Resistor Network Calculator (src/src/resistor.c).                       *)
(*                                                                         *)
(* The calculation handler on_calculate_clicked is modelled as a           *)
(* sequential process: pc is its position, and there is one action per     *)
(* loop header, loop body or straight-line block of the handler.           *)
(*                                                                         *)
(* C doubles are modelled as exact rationals <<p, q>> in lowest terms with *)
(* q > 0; every arithmetic operator below reduces its result.              *)
(***************************************************************************)
EXTENDS Integers, Sequences, FiniteSets, TLC

(***************************************************************************)
(* Program constants.                                                      *)
(***************************************************************************)
MAX_N == 5
MAX_RESULTS == 50
TOP_N_CODES == 5
MAX_RESISTORS_PER_NET == 8

(***************************************************************************)
(* Bounds of the model.  MAX_NETWORKS is the program's per-bucket capacity *)
(* (10000 in the source), scaled down so that a bucket and the result      *)
(* array fill up; MaxAvail bounds how many check buttons are active.       *)
(***************************************************************************)
MAX_NETWORKS == 60
MaxAvail == 2

(***************************************************************************)
(* Exact rational arithmetic standing for double arithmetic.               *)
(***************************************************************************)
Abs(x) == IF x < 0 THEN -x ELSE x

Min(x, y) == IF x <= y THEN x ELSE y

RECURSIVE Gcd(_, _)
Gcd(x, y) == IF y = 0 THEN x ELSE Gcd(y, x % y)

\* the rational p/q (q # 0) in lowest terms with a positive denominator
Rat(p, q) ==
    LET g == Gcd(Abs(p), Abs(q))
        s == IF q < 0 THEN -1 ELSE 1
    IN  <<(s * p) \div g, (s * q) \div g>>

RInt(k) == <<k, 1>>

RAdd(x, y) == Rat(x[1] * y[2] + y[1] * x[2], x[2] * y[2])

RSub(x, y) == Rat(x[1] * y[2] - y[1] * x[2], x[2] * y[2])

\* x / y for y # 0, cross-reduced before multiplying
RDiv(x, y) ==
    LET g1 == Gcd(Abs(x[1]), Abs(y[1]))
        g2 == Gcd(x[2], y[2])
        a  == IF g1 = 0 THEN x[1] ELSE x[1] \div g1
        c  == IF g1 = 0 THEN y[1] ELSE y[1] \div g1
    IN  Rat(a * (y[2] \div g2), (x[2] \div g2) * c)

RAbs(x) == <<Abs(x[1]), x[2]>>

RPos(x) == x[1] > 0

\* a/b < c/d for a, c >= 0 and b, d > 0, by the Euclidean expansion
RECURSIVE FracLess(_, _, _, _)
FracLess(a, b, c, d) ==
    LET qa == a \div b
        qc == c \div d
        ra == a % b
        rc == c % d
    IN  IF qa # qc THEN qa < qc
        ELSE IF rc = 0 THEN FALSE
        ELSE IF ra = 0 THEN TRUE
        ELSE FracLess(d, rc, b, ra)

RLt(x, y) ==
    IF x[1] < 0
    THEN IF y[1] < 0 THEN FracLess(-y[1], y[2], -x[1], x[2]) ELSE TRUE
    ELSE IF y[1] < 0 THEN FALSE ELSE FracLess(x[1], x[2], y[1], y[2])

RLe(x, y) == ~RLt(y, x)

(***************************************************************************)
(* The user interface the handler reads: the check buttons of the resistor *)
(* grid with the value parsed from each label, the target entry and the    *)
(* tolerance combo box (<<>> when no text is active).                      *)
(***************************************************************************)
Grid == <<RInt(100), RInt(10), RInt(0)>>

TargetChoices == {-5, 0, 100, 100000}

TolTexts == {<<>>, <<0>>, <<40>>, <<100>>}

Selections == {S \in SUBSET (1..Len(Grid)) : Cardinality(S) <= MaxAvail}

(***************************************************************************)
(* Heap blocks of one calculation: bucket k is block k, then the table of  *)
(* bucket pointers and the results array.                                  *)
(***************************************************************************)
TABLE_BLK == MAX_N + 1

RESULTS_BLK == MAX_N + 2

Blocks == 0..RESULTS_BLK

VARIABLES
    pc,          \* position in on_calculate_clicked
    selected,    \* indices of the active check buttons of the grid
    target_text, \* number held by the target entry
    tol_text,    \* active text of the tolerance combo, <<>> if none
    available,   \* available[0..numAvail-1]
    target, tolPerc, tol,
    allocated,   \* blocks malloc returned non-NULL for
    frees,       \* frees[blk]: number of free() calls on a non-NULL block
    networks,    \* networks[k]: the first count[k] entries of bucket k
    count,
    n, i, a, b,  \* loop variables (j_idx is n - i)
    results, num_results,
    found,
    output,      \* what the text buffer holds, as a sequence of lines
    errlog,      \* messages written with g_printerr
    ohms,        \* argument of a colour-code function
    code,        \* what the colour-code function called on ohms produced
    label,       \* argument of parse_resistor_value
    value,       \* what parse_resistor_value returned for label
    r2r,         \* the widgets read by and the locals of
                 \* on_r2r_generate_clicked
    r2r_output,  \* what the text buffer of the ladder tab holds
    hist         \* history of the clicks on Calculate, when calculations
                 \* are repeated

\* the state of on_calculate_clicked
hvars == <<pc, selected, target_text, tol_text, available, target, tolPerc,
           tol, allocated, frees, networks, count, n, i, a, b, results,
           num_results, found, output, errlog>>

\* the state of the helper functions when they are studied on their own
fvars == <<ohms, code, label, value, r2r, r2r_output, hist>>

vars == <<hvars, fvars>>

numAvail == Len(available)

\* mutant: the second operand is taken from bucket i again
j_idxBad == i

\* j_idx = n - i;
j_idx == n - i

\* networks[k][idx] with the C (0-based) index
Net(k, idx) == networks[k][idx + 1]

(***************************************************************************)
(* State after the locals of the handler are initialised (lines 409-417).  *)
(***************************************************************************)
Init ==
    /\ pc = "start"
    /\ selected \in Selections
    /\ target_text \in TargetChoices
    /\ tol_text \in TolTexts
    /\ available = <<>>
    /\ target = RInt(0)
    /\ tolPerc = RInt(0)
    /\ tol = RInt(0)
    /\ allocated = {}
    /\ frees = [blk \in Blocks |-> 0]
    /\ networks = [k \in 0..MAX_N |-> <<>>]
    /\ count = [k \in 0..MAX_N |-> 0]
    /\ n = 0
    /\ i = 0
    /\ a = 0
    /\ b = 0
    /\ results = <<>>
    /\ num_results = 0
    /\ found = FALSE
    /\ output = <<>>
    /\ errlog = <<>>
    /\ ohms = <<0, 0>>
    /\ code = <<>>
    /\ label = <<>>
    /\ value = <<>>
    /\ r2r = <<>>
    /\ r2r_output = <<>>
    /\ hist = <<>>

(***************************************************************************)
(* Lines 427-462: collect the selected values, read and validate the       *)
(* target, reject an empty selection, read the tolerance.                  *)
(***************************************************************************)
RECURSIVE Collect(_, _)
Collect(k, acc) ==
    IF k > Len(Grid) \/ Len(acc) >= 100 THEN acc
    ELSE Collect(k + 1, IF k \in selected THEN Append(acc, Grid[k]) ELSE acc)

\* mutant: only a negative target is rejected
TargetInvalidBad(t) == t[1] < 0

\* if (target <= 0)
TargetInvalid(t) == ~RPos(t)

\* mutant: an empty selection is never detected
NoneSelectedBad(c) == FALSE

\* if (numAvail == 0)
NoneSelected(c) == c = 0

ReadTolPerc == IF tol_text # <<>> THEN RInt(tol_text[1]) ELSE RInt(5)

ReadInputs ==
    /\ pc = "start"
    /\ UNCHANGED fvars
    /\ available' = Collect(1, <<>>)
    /\ target' = RInt(target_text)
    /\ IF TargetInvalid(target')
       THEN /\ output' = <<[kind |-> "error_target"]>>
            /\ pc' = "done"
            /\ UNCHANGED <<tolPerc, tol>>
       ELSE IF NoneSelected(Len(available'))
       THEN /\ output' = <<[kind |-> "error_select"]>>
            /\ pc' = "done"
            /\ UNCHANGED <<tolPerc, tol>>
       ELSE /\ tolPerc' = ReadTolPerc
            /\ tol' = RDiv(tolPerc', RInt(100))
            /\ pc' = "alloc_table"
            /\ UNCHANGED output
    /\ UNCHANGED <<selected, target_text, tol_text, allocated, frees, networks,
                   count, n, i, a, b, results, num_results, found, errlog>>

(***************************************************************************)
(* Lines 464-479: allocate the pointer table and the MAX_N + 1 buckets.    *)
(* malloc may return NULL.                                                 *)
(***************************************************************************)
AllocTable ==
    /\ pc = "alloc_table"
    /\ UNCHANGED fvars
    /\ \/ /\ allocated' = allocated \cup {TABLE_BLK}
          /\ i' = 0
          /\ pc' = "alloc_bucket"
          /\ UNCHANGED errlog
       \/ /\ errlog' = Append(errlog, "Memory allocation failed")
          /\ pc' = "done"
          /\ UNCHANGED <<allocated, i>>
    /\ UNCHANGED <<selected, target_text, tol_text, available, target, tolPerc,
                   tol, frees, networks, count, n, a, b, results, num_results,
                   found, output>>

AllocBucket ==
    /\ pc = "alloc_bucket"
    /\ UNCHANGED fvars
    /\ IF i <= MAX_N
       THEN \/ /\ allocated' = allocated \cup {i}
               /\ i' = i + 1
               /\ UNCHANGED <<pc, errlog>>
            \/ /\ errlog' = Append(errlog, "Memory allocation failed")
               /\ pc' = "cleanup"
               /\ UNCHANGED <<allocated, i>>
       ELSE /\ i' = 0
            /\ pc' = "base"
            /\ UNCHANGED <<allocated, errlog>>
    /\ UNCHANGED <<selected, target_text, tol_text, available, target, tolPerc,
                   tol, frees, networks, count, n, a, b, results, num_results,
                   found, output>>

(***************************************************************************)
(* Expressions.  snprintf("%.2f") of a value is the value in hundredths,   *)
(* rounded; a combination is the operator with its two operand texts.      *)
(* With MAX_N = 5 an expression stays far below MAX_EXPR = 256 characters, *)
(* so the strncpy truncation never cuts one.                               *)
(***************************************************************************)
Fmt2(v) == (200 * v[1] + v[2]) \div (2 * v[2])

BaseExpr(v) == <<"r", Fmt2(v)>>

SeriesExpr(ea, eb) == <<"+", ea, eb>>

ParallelExpr(ea, eb) == <<"||", ea, eb>>

(***************************************************************************)
(* Lines 481-492: the base case, one single-resistor network per value.    *)
(* src is a history field: where the entry came from.                      *)
(***************************************************************************)
BaseNet(v) ==
    [R |-> v, n |-> 1, expr |-> BaseExpr(v), parts |-> <<v>>, num_parts |-> 1,
     src |-> [op |-> "base", i |-> 0, a |-> 0, j |-> 0, b |-> 0]]

BaseCase ==
    /\ pc = "base"
    /\ UNCHANGED fvars
    /\ IF i < numAvail
       THEN /\ IF count[1] < MAX_NETWORKS
               THEN /\ networks' = [networks EXCEPT
                                      ![1] = Append(@, BaseNet(available[i + 1]))]
                    /\ count' = [count EXCEPT ![1] = @ + 1]
               ELSE UNCHANGED <<networks, count>>
            /\ i' = i + 1
            /\ UNCHANGED <<pc, n>>
       ELSE /\ n' = 2
            /\ pc' = "n_loop"
            /\ UNCHANGED <<networks, count, i>>
    /\ UNCHANGED <<selected, target_text, tol_text, available, target, tolPerc,
                   tol, allocated, frees, a, b, results, num_results, found,
                   output, errlog>>

(***************************************************************************)
(* Lines 510-551: the two networks built from A = networks[i][a] and       *)
(* B = networks[j_idx][b].                                                 *)
(***************************************************************************)
RSeries(A, B) == RAdd(A.R, B.R)

\* mutant: the reciprocal of the sum, not of the sum of reciprocals
RParallelBad(A, B) == RDiv(RInt(1), RAdd(A.R, B.R))

RParallel(A, B) ==
    RDiv(RInt(1), RAdd(RDiv(RInt(1), A.R), RDiv(RInt(1), B.R)))

ParallelGuard(A, B) == RPos(A.R) /\ RPos(B.R)

\* one copy loop: for (p = 0; p < S.num_parts && num_parts < 8; p++)
RECURSIVE CopyParts(_, _, _)
CopyParts(dst, S, p) ==
    IF p < S.num_parts /\ Len(dst) < MAX_RESISTORS_PER_NET
    THEN CopyParts(Append(dst, S.parts[p + 1]), S, p + 1)
    ELSE dst

MergeParts(A, B) == CopyParts(CopyParts(<<>>, A, 0), B, 0)

\* mutant: the size of the left operand plus one
CombinedSizeBad(A, B) == A.n + 1

CombinedSize(A, B) == A.n + B.n

SeriesNet(A, B, prov) ==
    LET ps == MergeParts(A, B)
    IN  [R |-> RSeries(A, B), n |-> CombinedSize(A, B),
         expr |-> SeriesExpr(A.expr, B.expr),
         parts |-> ps, num_parts |-> Len(ps),
         src |-> [prov EXCEPT !.op = "series"]]

ParallelNet(A, B, prov) ==
    LET ps == MergeParts(A, B)
    IN  [R |-> RParallel(A, B), n |-> CombinedSize(A, B),
         expr |-> ParallelExpr(A.expr, B.expr),
         parts |-> ps, num_parts |-> Len(ps),
         src |-> [prov EXCEPT !.op = "parallel"]]

\* mutant: off-by-one capacity test
HasRoomBad(c) == c <= MAX_NETWORKS

\* the capacity test guarding every store into a bucket
HasRoom(c) == c < MAX_NETWORKS

\* mutant: the inner loop always starts at 0
BStartBad(ii, jj, aa) == 0

\* int b_start = (i == j_idx) ? a : 0;
BStart(ii, jj, aa) == IF ii = jj THEN aa ELSE 0

(***************************************************************************)
(* Lines 494-555: the loop nest building buckets 2..MAX_N.  One action per *)
(* loop header; BLoop also runs the loop body for one pair (a, b).         *)
(***************************************************************************)
BuildFrame == <<selected, target_text, tol_text, available, target, tolPerc,
                tol, allocated, frees, results, num_results, found, output,
                errlog>>

NLoop ==
    /\ pc = "n_loop"
    /\ UNCHANGED fvars
    /\ IF n <= MAX_N
       THEN /\ count' = [count EXCEPT ![n] = 0]
            /\ i' = 1
            /\ pc' = "i_loop"
       ELSE /\ pc' = "alloc_results"
            /\ UNCHANGED <<count, i>>
    /\ UNCHANGED <<networks, n, a, b>>
    /\ UNCHANGED BuildFrame

ILoop ==
    /\ pc = "i_loop"
    /\ UNCHANGED fvars
    /\ IF i < n
       THEN /\ a' = 0
            /\ pc' = "a_loop"
            /\ UNCHANGED n
       ELSE /\ n' = n + 1
            /\ pc' = "n_loop"
            /\ UNCHANGED a
    /\ UNCHANGED <<networks, count, i, b>>
    /\ UNCHANGED BuildFrame

ALoop ==
    /\ pc = "a_loop"
    /\ UNCHANGED fvars
    /\ IF a < count[i]
       THEN /\ b' = BStart(i, j_idx, a)
            /\ pc' = "b_loop"
            /\ UNCHANGED i
       ELSE /\ i' = i + 1
            /\ pc' = "i_loop"
            /\ UNCHANGED b
    /\ UNCHANGED <<networks, count, n, a>>
    /\ UNCHANGED BuildFrame

BLoop ==
    /\ pc = "b_loop"
    /\ UNCHANGED fvars
    /\ IF b < count[j_idx]
       THEN LET A    == Net(i, a)
                B    == Net(j_idx, b)
                prov == [op |-> "", i |-> i, a |-> a, j |-> j_idx, b |-> b]
                ser  == HasRoom(count[n])
                c1   == IF ser THEN count[n] + 1 ELSE count[n]
                b1   == IF ser THEN Append(networks[n], SeriesNet(A, B, prov))
                               ELSE networks[n]
                par  == ParallelGuard(A, B) /\ HasRoom(c1)
                c2   == IF par THEN c1 + 1 ELSE c1
                b2   == IF par THEN Append(b1, ParallelNet(A, B, prov)) ELSE b1
            IN  /\ networks' = [networks EXCEPT ![n] = b2]
                /\ count' = [count EXCEPT ![n] = c2]
                /\ b' = b + 1
                /\ UNCHANGED <<pc, a>>
       ELSE /\ a' = a + 1
            /\ pc' = "a_loop"
            /\ UNCHANGED <<networks, count, b>>
    /\ UNCHANGED <<n, i>>
    /\ UNCHANGED BuildFrame

(***************************************************************************)
(* Lines 557-564: allocate the results array.                              *)
(***************************************************************************)
AllocResults ==
    /\ pc = "alloc_results"
    /\ UNCHANGED fvars
    /\ num_results' = 0
    /\ \/ /\ allocated' = allocated \cup {RESULTS_BLK}
          /\ n' = 1
          /\ pc' = "collect_n"
          /\ UNCHANGED errlog
       \/ /\ errlog' = Append(errlog, "Memory allocation failed for results")
          /\ pc' = "cleanup"
          /\ UNCHANGED <<allocated, n>>
    /\ UNCHANGED <<selected, target_text, tol_text, available, target, tolPerc,
                   tol, frees, networks, count, i, a, b, results, found, output>>

(***************************************************************************)
(* Lines 566-583: copy every network within tolerance into results.        *)
(***************************************************************************)
\* fabs(R - target) / target
RelError(R, t) == RDiv(RAbs(RSub(R, t)), t)

\* mutant: a strict comparison
WithinTolStrict(err, tl) == RLt(err, tl)

\* mutant: the error is compared with the percentage, not the fraction
WithinTolBad(err, tl) == RLe(err, tolPerc)

WithinTol(err, tl) == RLe(err, tl)

\* the capacity test guarding every store into results
ResultsHaveRoom(c) == c < MAX_NETWORKS

\* for (p = 0; p < num_parts; p++) results[..].parts[p] = networks[n][i].parts[p]
ResultParts(N) == [p \in 1..N.num_parts |-> N.parts[p]]

MkResult(N, err) ==
    [R |-> N.R, error |-> err, n |-> N.n, expr |-> N.expr,
     parts |-> ResultParts(N), num_parts |-> N.num_parts]

CollectFrame == <<selected, target_text, tol_text, available, target, tolPerc,
                  tol, allocated, frees, networks, count, a, b, found, output,
                  errlog>>

CollectN ==
    /\ pc = "collect_n"
    /\ UNCHANGED fvars
    /\ IF n <= MAX_N
       THEN /\ i' = 0
            /\ pc' = "collect_i"
       ELSE /\ pc' = "sort"
            /\ UNCHANGED i
    /\ UNCHANGED <<n, results, num_results>>
    /\ UNCHANGED CollectFrame

CollectI ==
    /\ pc = "collect_i"
    /\ UNCHANGED fvars
    /\ IF i < count[n]
       THEN LET relError == RelError(Net(n, i).R, target)
            IN  /\ IF WithinTol(relError, tol) /\ ResultsHaveRoom(num_results)
                   THEN /\ results' = Append(results, MkResult(Net(n, i), relError))
                        /\ num_results' = num_results + 1
                   ELSE UNCHANGED <<results, num_results>>
                /\ i' = i + 1
                /\ UNCHANGED <<pc, n>>
       ELSE /\ n' = n + 1
            /\ pc' = "collect_n"
            /\ UNCHANGED <<i, results, num_results>>
    /\ UNCHANGED CollectFrame

(***************************************************************************)
(* Lines 60-68 and 585-588: qsort with compare_results.  qsort leaves the  *)
(* order of entries that compare equal unspecified: the model allows the   *)
(* stable order and its reverse.                                           *)
(***************************************************************************)
\* mutant: no secondary key
CompareResultsBad(ra, rb) ==
    IF RLt(ra.error, rb.error) THEN -1
    ELSE IF RLt(rb.error, ra.error) THEN 1
    ELSE 0

CompareResults(ra, rb) ==
    IF RLt(ra.error, rb.error) THEN -1
    ELSE IF RLt(rb.error, ra.error) THEN 1
    ELSE ra.n - rb.n

\* entry j stands before entry k in the sorted array: by compare_results,
\* and entries that compare equal in their stored order or in its reverse
Precedes(s, j, k, rev) ==
    LET c == CompareResults(s[j], s[k])
    IN  c < 0 \/ (c = 0 /\ IF rev THEN j > k ELSE j < k)

\* the 1-based place of entry k in the sorted array
Rank(s, k, rev) ==
    1 + Cardinality({j \in 1..Len(s) : j # k /\ Precedes(s, j, k, rev)})

Qsort(s, rev) ==
    LET rank == [k \in 1..Len(s) |-> Rank(s, k, rev)]
    IN  [p \in 1..Len(s) |-> s[CHOOSE k \in 1..Len(s) : rank[k] = p]]

SortResults ==
    /\ pc = "sort"
    /\ UNCHANGED fvars
    /\ IF num_results > 0
       THEN \E rev \in BOOLEAN : results' = Qsort(results, rev)
       ELSE UNCHANGED results
    /\ pc' = "header"
    /\ UNCHANGED <<selected, target_text, tol_text, available, target, tolPerc,
                   tol, allocated, frees, networks, count, n, i, a, b,
                   num_results, found, output, errlog>>

(***************************************************************************)
(* Lines 590-684: write the report into the text buffer.                   *)
(***************************************************************************)
Shown(c) == IF c < MAX_RESULTS THEN c ELSE MAX_RESULTS

HeaderLine ==
    [kind |-> "header", tolPerc |-> Fmt2(tolPerc), target |-> Fmt2(target),
     found |-> num_results, showing |-> Shown(num_results)]

\* mutant: no part counts as shown already
AlreadyShownBad(seen, v) == FALSE

\* fabs(seen[s] - v) < 0.01 for some s < num_seen
AlreadyShown(seen, v) ==
    \E s \in 1..Len(seen) : RLt(RAbs(RSub(seen[s], v)), <<1, 100>>)

\* lines 633-653: the code lines of one result, with the seen list
RECURSIVE CodeLines(_, _, _, _, _)
CodeLines(r, k, p, seen, lines) ==
    IF p >= r.num_parts THEN lines
    ELSE LET v == r.parts[p + 1]
         IN  IF AlreadyShown(seen, v)
             THEN CodeLines(r, k, p + 1, seen, lines)
             ELSE CodeLines(r, k, p + 1,
                            IF Len(seen) < MAX_RESISTORS_PER_NET
                            THEN Append(seen, v) ELSE seen,
                            Append(lines, [kind |-> "code", idx |-> k,
                                           value |-> v]))

\* mutant: one more result gets a rank and codes
AnnotatedBad(k) == k <= TOP_N_CODES

\* if (i < TOP_N_CODES)
Annotated(k) == k < TOP_N_CODES

ResultLines(k) ==
    LET r == results[k + 1]
    IN  (IF Annotated(k) THEN <<[kind |-> "rank", idx |-> k, rank |-> k + 1]>>
         ELSE <<>>)
        \o <<[kind |-> "result", idx |-> k, expr |-> r.expr, R |-> Fmt2(r.R),
              n |-> r.n, errPct |-> Fmt2(RDiv(r.error, <<1, 100>>))]>>
        \o (IF Annotated(k)
            THEN <<[kind |-> "codes_title", idx |-> k]>>
                 \o CodeLines(r, k, 0, <<>>, <<>>)
            ELSE <<>>)
        \o <<[kind |-> "blank", idx |-> k]>>

DisplayFrame == <<selected, target_text, tol_text, available, target, tolPerc,
                  tol, allocated, frees, networks, count, n, a, b, results,
                  num_results, errlog>>

Header ==
    /\ pc = "header"
    /\ UNCHANGED fvars
    /\ output' = <<HeaderLine>>
    /\ i' = 0
    /\ pc' = "display"
    /\ UNCHANGED found
    /\ UNCHANGED DisplayFrame

DisplayLoop ==
    /\ pc = "display"
    /\ UNCHANGED fvars
    /\ IF i < num_results /\ i < MAX_RESULTS
       THEN /\ output' = output \o ResultLines(i)
            /\ found' = TRUE
            /\ i' = i + 1
            /\ UNCHANGED pc
       ELSE /\ pc' = "footer"
            /\ UNCHANGED <<output, found, i>>
    /\ UNCHANGED DisplayFrame

\* mutant: the test of line 665 without its negation
NothingFoundBad == found

\* if (!found)
NothingFound == ~found

Footer ==
    /\ pc = "footer"
    /\ UNCHANGED fvars
    /\ output' = output
         \o (IF num_results > MAX_RESULTS
             THEN <<[kind |-> "more", more |-> num_results - MAX_RESULTS]>>
             ELSE <<>>)
         \o (IF NothingFound THEN <<[kind |-> "no_network"]>> ELSE <<>>)
         \o <<[kind |-> "legend"]>>
    /\ i' = 10
    /\ pc' = "free_results"
    /\ UNCHANGED found
    /\ UNCHANGED DisplayFrame

(***************************************************************************)
(* Lines 686-694: free(results), then the cleanup label.                   *)
(***************************************************************************)
FreeResults ==
    /\ pc = "free_results"
    /\ UNCHANGED fvars
    /\ frees' = [frees EXCEPT ![RESULTS_BLK] = @ + 1]
    /\ pc' = "cleanup"
    /\ UNCHANGED <<selected, target_text, tol_text, available, target, tolPerc,
                   tol, allocated, networks, count, n, i, a, b, results,
                   num_results, found, output, errlog>>

\* mutant: only the pointer table is freed, the buckets leak
FreeAllBad(fr) == [fr EXCEPT ![TABLE_BLK] = @ + 1]

\* free(networks[i]) for i = 0..MAX_N (free(NULL) does nothing), free(networks)
FreeAll(fr) ==
    [blk \in Blocks |->
        IF blk \in allocated /\ blk # RESULTS_BLK THEN fr[blk] + 1 ELSE fr[blk]]

Cleanup ==
    /\ pc = "cleanup"
    /\ UNCHANGED fvars
    /\ frees' = (IF TABLE_BLK \in allocated THEN FreeAll(frees) ELSE frees)
    /\ i' = MAX_N + 1
    /\ pc' = "done"
    /\ UNCHANGED <<selected, target_text, tol_text, available, target, tolPerc,
                   tol, allocated, networks, count, n, a, b, results,
                   num_results, found, output, errlog>>

Next ==
    \/ ReadInputs
    \/ AllocTable
    \/ AllocBucket
    \/ BaseCase
    \/ NLoop
    \/ ILoop
    \/ ALoop
    \/ BLoop
    \/ AllocResults
    \/ CollectN
    \/ CollectI
    \/ SortResults
    \/ Header
    \/ DisplayLoop
    \/ Footer
    \/ FreeResults
    \/ Cleanup

Spec == Init /\ [][Next]_vars

(***************************************************************************)
(* Lines 76-100: the colour tables, and the arithmetic of the colour-code  *)
(* functions.  A resistance is the decimal number m * 10^e, written        *)
(* <<m, e>>; floor(log10), the division by pow(10, exp10) and round are    *)
(* computed exactly on it.  The double arithmetic of the 4-band and 5-band *)
(* code agrees with that: exp10 >= 0 there, so a quotient that falls on a  *)
(* half comes from an integer or a multiple of 1/2, which a double holds   *)
(* exactly, and every other quotient stays on its side of the half.        *)
(***************************************************************************)
color_names == <<"Black", "Brown", "Red", "Orange", "Yellow",
                 "Green", "Blue", "Violet", "Grey", "White">>

multiplier_colors == <<"Black", "Brown", "Red", "Orange", "Yellow",
                       "Green", "Blue", "Violet", "Grey", "White">>

\* what a read past the end of a table may hand to snprintf: any pointer
Garbage == {"(null)", "(garbage)", "Black", "#000000"}

\* table[idx] with the C (0-based) index; the code has no bounds check
Lookup(table, idx) ==
    IF idx \in 0..(Len(table) - 1) THEN {table[idx + 1]} ELSE Garbage

MaxMant == 1200

MaxFracDigits == 2

MaxExp == 10

\* the resistances the functions are called with: zero and negative ones,
\* every m * 10^e of the bounds, and values that round up at four digits
OhmsChoices ==
    {<<m, e>> : m \in (-2..MaxMant) \cup {9949, 9950, 9994, 9995},
                e \in (-MaxFracDigits)..MaxExp}

RECURSIVE Pow10(_)
Pow10(k) == IF k = 0 THEN 1 ELSE 10 * Pow10(k - 1)

RECURSIVE NumDigits(_)
NumDigits(m) == IF m < 10 THEN 1 ELSE 1 + NumDigits(m \div 10)

\* mutant: zero passes the check
OhmsInvalidBad(x) == x[1] < 0

\* if (ohms <= 0)
OhmsInvalid(x) == x[1] <= 0

\* (int)floor(log10(ohms)), for ohms > 0
FloorLog10(x) == NumDigits(x[1]) - 1 + x[2]

\* mutant: truncation instead of rounding
RoundDecBad(m, d) ==
    IF d >= 0 THEN m * Pow10(d) ELSE m \div Pow10(-d)

\* (int)round(m * 10^d), m >= 0: halves round away from zero
RoundDec(m, d) ==
    IF d >= 0 THEN m * Pow10(d)
    ELSE (2 * m + Pow10(-d)) \div (2 * Pow10(-d))

\* (int)round(ohms / pow(10, k))
RoundDiv(x, k) == RoundDec(x[1], x[2] - k)

\* if (exp10 < 0) exp10 = 0;
ClampLow(e) == IF e < 0 THEN 0 ELSE e

\* if (exp10 > 9) exp10 = 9;
ClampHigh(e) == IF e > 9 THEN 9 ELSE e

(***************************************************************************)
(* Lines 228-249 (and 156-165): normalisation to two significant digits.   *)
(***************************************************************************)
Norm4Band(x) ==
    LET e0 == ClampHigh(ClampLow(FloorLog10(x) - 1))
        s0 == RoundDiv(x, e0)
        s1 == IF s0 >= 100 THEN s0 \div 10 ELSE s0
        e1 == IF s0 >= 100 THEN e0 + 1 ELSE e0
        s2 == IF s1 < 10 THEN s1 * 10 ELSE s1
        e2 == IF s1 < 10 THEN e1 - 1 ELSE e1
    IN  [sig |-> s2, exp10 |-> ClampHigh(ClampLow(e2))]

(***************************************************************************)
(* Lines 274-295 (and 188-197): normalisation to three significant digits. *)
(***************************************************************************)
Norm5Band(x) ==
    LET e0 == ClampHigh(ClampLow(FloorLog10(x) - 2))
        s0 == RoundDiv(x, e0)
        s1 == IF s0 >= 1000 THEN s0 \div 10 ELSE s0
        e1 == IF s0 >= 1000 THEN e0 + 1 ELSE e0
        s2 == IF s1 < 100 THEN s1 * 10 ELSE s1
        e2 == IF s1 < 100 THEN e1 - 1 ELSE e1
    IN  [sig |-> s2, exp10 |-> ClampHigh(ClampLow(e2))]

(***************************************************************************)
(* Lines 328-336: the normalisation of get_smd_code; after the rounding    *)
(* corrections only the lower clamp is applied.                            *)
(***************************************************************************)
NormSmd(x) ==
    LET e0 == ClampHigh(ClampLow(FloorLog10(x) - 1))
        s0 == RoundDiv(x, e0)
        s1 == IF s0 >= 100 THEN s0 \div 10 ELSE s0
        e1 == IF s0 >= 100 THEN e0 + 1 ELSE e0
        s2 == IF s1 < 10 THEN s1 * 10 ELSE s1
        e2 == IF s1 < 10 THEN e1 - 1 ELSE e1
    IN  [sig |-> s2, exp10 |-> ClampLow(e2)]

(***************************************************************************)
(* Lines 320-326: the R notation of get_smd_code for ohms < 10.  Here the  *)
(* double arithmetic matters: when (ohms - whole) * 10 is a half in        *)
(* decimal but ohms is no exact double, the product may land on the half   *)
(* or just below it, so round may go either way.                           *)
(***************************************************************************)
\* ohms < 10.0, for ohms > 0
BelowTen(x) == FloorLog10(x) < 1

\* (int)ohms
Whole(x) == IF x[2] >= 0 THEN x[1] * Pow10(x[2]) ELSE x[1] \div Pow10(-x[2])

RECURSIVE Pow5(_)
Pow5(k) == IF k = 0 THEN 1 ELSE 5 * Pow5(k - 1)

\* the decimal m * 10^e is a double exactly (its denominator is a power of 2)
ExactDouble(x) == x[2] >= 0 \/ x[1] % Pow5(-x[2]) = 0

\* m * 10^d is an integer plus one half
IsHalf(m, d) == d < 0 /\ (2 * m) % (2 * Pow10(-d)) = Pow10(-d)

\* the values (int)round((ohms - whole) * 10) % 10 can take
SmdFrac(x) ==
    IF x[2] >= 0 THEN {0}
    ELSE LET t  == x[1] - Whole(x) * Pow10(-x[2])
             up == RoundDec(t, x[2] + 1)
         IN  IF IsHalf(t, x[2] + 1) /\ ~ExactDouble(x)
             THEN {up % 10, (up - 1) % 10}
             ELSE {up % 10}

\* snprintf("%d") of v >= 0
DigitChars == <<"0", "1", "2", "3", "4", "5", "6", "7", "8", "9">>

RECURSIVE DecimalText(_)
DecimalText(v) ==
    IF v < 10 THEN <<DigitChars[v + 1]>>
    ELSE Append(DecimalText(v \div 10), DigitChars[(v % 10) + 1])

(***************************************************************************)
(* The five functions.  code records what a call left in its buffer (the   *)
(* pieces of the text), the indices it used for the table lookups and,     *)
(* as history, which operations it performed.                              *)
(***************************************************************************)
NoCode == <<>>

InvalidCode(fn) ==
    [fn |-> fn, text |-> <<"(invalid)">>, sig |-> <<>>, exp10 |-> <<>>,
     idx |-> <<>>, ops |-> {}]

\* insert_color_box: " %s " with the tag of the colour
Box(c) == [box |-> c]

\* d1 = sig2 / 10; d2 = sig2 % 10;
Digits4Band(sig2) == <<sig2 \div 10, sig2 % 10>>

\* d1 = sig3 / 100; d2 = (sig3 / 10) % 10; d3 = sig3 % 10;
Digits5Band(sig3) == <<sig3 \div 100, (sig3 \div 10) % 10, sig3 % 10>>

CodeFrame == <<ohms, label, value, r2r, r2r_output, hist>>

get_4band_code ==
    /\ pc = "codes" /\ code = NoCode
    /\ IF OhmsInvalid(ohms)
       THEN code' = InvalidCode("get_4band_code")
       ELSE LET nm == Norm4Band(ohms)
                d  == Digits4Band(nm.sig)
            IN  \E c1 \in Lookup(color_names, d[1]),
                   c2 \in Lookup(color_names, d[2]),
                   cm \in Lookup(multiplier_colors, nm.exp10) :
                    code' = [fn |-> "get_4band_code",
                             text |-> <<c1, c2, cm, "Gold">>,
                             sig |-> <<nm.sig>>, exp10 |-> <<nm.exp10>>,
                             idx |-> d, ops |-> {"log10", "div", "lookup"}]
    /\ UNCHANGED CodeFrame
    /\ UNCHANGED hvars

insert_4band_visual ==
    /\ pc = "codes" /\ code = NoCode
    /\ IF OhmsInvalid(ohms)
       THEN code' = InvalidCode("insert_4band_visual")
       ELSE LET nm == Norm4Band(ohms)
                d  == Digits4Band(nm.sig)
            IN  \E c1 \in Lookup(color_names, d[1]),
                   c2 \in Lookup(color_names, d[2]),
                   cm \in Lookup(multiplier_colors, nm.exp10) :
                    code' = [fn |-> "insert_4band_visual",
                             text |-> <<"4-band: ", Box(c1), Box(c2), Box(cm),
                                        Box("Gold")>>,
                             sig |-> <<nm.sig>>, exp10 |-> <<nm.exp10>>,
                             idx |-> d, ops |-> {"log10", "div", "lookup"}]
    /\ UNCHANGED CodeFrame
    /\ UNCHANGED hvars

get_5band_code ==
    /\ pc = "codes" /\ code = NoCode
    /\ IF OhmsInvalid(ohms)
       THEN code' = InvalidCode("get_5band_code")
       ELSE LET nm == Norm5Band(ohms)
                d  == Digits5Band(nm.sig)
            IN  \E c1 \in Lookup(color_names, d[1]),
                   c2 \in Lookup(color_names, d[2]),
                   c3 \in Lookup(color_names, d[3]),
                   cm \in Lookup(multiplier_colors, nm.exp10) :
                    code' = [fn |-> "get_5band_code",
                             text |-> <<c1, c2, c3, cm, "Brown">>,
                             sig |-> <<nm.sig>>, exp10 |-> <<nm.exp10>>,
                             idx |-> d, ops |-> {"log10", "div", "lookup"}]
    /\ UNCHANGED CodeFrame
    /\ UNCHANGED hvars

insert_5band_visual ==
    /\ pc = "codes" /\ code = NoCode
    /\ IF OhmsInvalid(ohms)
       THEN code' = InvalidCode("insert_5band_visual")
       ELSE LET nm == Norm5Band(ohms)
                d  == Digits5Band(nm.sig)
            IN  \E c1 \in Lookup(color_names, d[1]),
                   c2 \in Lookup(color_names, d[2]),
                   c3 \in Lookup(color_names, d[3]),
                   cm \in Lookup(multiplier_colors, nm.exp10) :
                    code' = [fn |-> "insert_5band_visual",
                             text |-> <<"5-band: ", Box(c1), Box(c2), Box(c3),
                                        Box(cm), Box("Brown")>>,
                             sig |-> <<nm.sig>>, exp10 |-> <<nm.exp10>>,
                             idx |-> d, ops |-> {"log10", "div", "lookup"}]
    /\ UNCHANGED CodeFrame
    /\ UNCHANGED hvars

get_smd_code ==
    /\ pc = "codes" /\ code = NoCode
    /\ IF OhmsInvalid(ohms)
       THEN code' = InvalidCode("get_smd_code")
       ELSE IF BelowTen(ohms)
       THEN \E frac \in SmdFrac(ohms) :
                code' = [fn |-> "get_smd_code",
                         text |-> DecimalText(Whole(ohms)) \o <<"R">>
                                      \o DecimalText(frac),
                         sig |-> <<>>, exp10 |-> <<>>, idx |-> <<>>,
                         ops |-> {}]
       ELSE LET nm == NormSmd(ohms)
            IN  code' = [fn |-> "get_smd_code",
                         text |-> DecimalText(nm.sig) \o DecimalText(nm.exp10),
                         sig |-> <<nm.sig>>, exp10 |-> <<nm.exp10>>,
                         idx |-> <<>>, ops |-> {"log10", "div"}]
    /\ UNCHANGED CodeFrame
    /\ UNCHANGED hvars

\* the handler is not running
HandlerIdle ==
    /\ selected = {} /\ target_text = 0 /\ tol_text = <<>>
    /\ available = <<>>
    /\ target = RInt(0) /\ tolPerc = RInt(0) /\ tol = RInt(0)
    /\ allocated = {}
    /\ frees = [blk \in Blocks |-> 0]
    /\ networks = [k \in 0..MAX_N |-> <<>>]
    /\ count = [k \in 0..MAX_N |-> 0]
    /\ n = 0 /\ i = 0 /\ a = 0 /\ b = 0
    /\ results = <<>> /\ num_results = 0
    /\ found = FALSE
    /\ output = <<>> /\ errlog = <<>>

CodeInit ==
    /\ pc = "codes"
    /\ HandlerIdle
    /\ ohms \in OhmsChoices
    /\ code = NoCode
    /\ label = <<>>
    /\ value = <<>>
    /\ r2r = <<>>
    /\ r2r_output = <<>>
    /\ hist = <<>>

CodeNext ==
    \/ get_4band_code
    \/ get_5band_code
    \/ get_smd_code
    \/ insert_4band_visual
    \/ insert_5band_visual

CodeSpec == CodeInit /\ [][CodeNext]_vars

(***************************************************************************)
(* Lines 383-395: parse_resistor_value.  A label is a sequence of          *)
(* characters; sscanf("%lf%9s") is modelled character by character for the *)
(* characters of Alphabet: white space is skipped, then an optional sign,  *)
(* then either digits with an optional point (at least one digit) or the   *)
(* word nan; then white space is skipped again and up to 9 characters that *)
(* are not white space are stored in suffix.  (The alphabet has no e, x, i *)
(* or f: exponents, hexadecimal numbers and inf are not spelled here.)     *)
(* A value is <<"num", m, e>> for m * 10^e, or <<"nan", 0, 0>>.            *)
(***************************************************************************)
Alphabet == {"0", "4", ".", "-", " ", "K", "k", "M", "m", "o", "h", "n", "a"}

MaxLabelLen == 4

Labels == UNION {[1..k -> Alphabet] : k \in 0..MaxLabelLen}

isspace(c) == c = " "

isdigit(c) == \E d \in 1..Len(DigitChars) : DigitChars[d] = c

DigitVal(c) == (CHOOSE d \in 1..Len(DigitChars) : DigitChars[d] = c) - 1

\* the first position from p on that holds no white space
RECURSIVE SkipSpace(_, _)
SkipSpace(s, p) ==
    IF p <= Len(s) /\ isspace(s[p]) THEN SkipSpace(s, p + 1) ELSE p

\* the first position from p on that holds no digit
RECURSIVE ScanDigits(_, _)
ScanDigits(s, p) ==
    IF p <= Len(s) /\ isdigit(s[p]) THEN ScanDigits(s, p + 1) ELSE p

\* the number the digits among s[p], ..., s[q - 1] spell
RECURSIVE DigitsValue(_, _, _, _)
DigitsValue(s, p, q, acc) ==
    IF p >= q THEN acc
    ELSE DigitsValue(s, p + 1, q,
                     IF isdigit(s[p]) THEN 10 * acc + DigitVal(s[p]) ELSE acc)

\* s holds the word w at position p
HasWord(s, p, w) ==
    /\ p + Len(w) - 1 <= Len(s)
    /\ \A k \in 1..Len(w) : s[p + k - 1] = w[k]

\* the %lf conversion: whether it matched, the value and where it stopped
ScanDouble(s) ==
    LET p0   == SkipSpace(s, 1)
        neg  == p0 <= Len(s) /\ s[p0] = "-"
        p1   == IF neg THEN p0 + 1 ELSE p0
        i1   == ScanDigits(s, p1)
        dot  == i1 <= Len(s) /\ s[i1] = "."
        f1   == IF dot THEN ScanDigits(s, i1 + 1) ELSE i1
        nfr  == IF dot THEN f1 - (i1 + 1) ELSE 0
        m    == DigitsValue(s, p1, f1, 0)
    IN  IF HasWord(s, p1, <<"n", "a", "n">>)
        THEN [ok |-> TRUE, val |-> <<"nan", 0, 0>>, next |-> p1 + 3]
        ELSE IF (i1 - p1) + nfr >= 1
        THEN [ok |-> TRUE, val |-> <<"num", IF neg THEN -m ELSE m, -nfr>>,
              next |-> f1]
        ELSE [ok |-> FALSE, val |-> <<"num", 0, 0>>, next |-> p0]

\* the %9s conversion from position p: the characters stored in suffix
RECURSIVE ScanWord(_, _, _)
ScanWord(s, p, acc) ==
    IF p <= Len(s) /\ ~isspace(s[p]) /\ Len(acc) < 9
    THEN ScanWord(s, p + 1, Append(acc, s[p]))
    ELSE acc

\* strchr(suffix, c) != NULL
strchr(w, c) == \E k \in 1..Len(w) : w[k] = c

\* value *= 10^k
Scale(v, k) == IF v[1] = "nan" THEN v ELSE <<"num", v[2], v[3] + k>>

ParseValue(s) ==
    LET sc     == ScanDouble(s)
        suffix == IF sc.ok THEN ScanWord(s, SkipSpace(s, sc.next), <<>>)
                  ELSE <<>>
    IN  IF ~sc.ok THEN <<"num", 0, 0>>
        ELSE IF strchr(suffix, "K") \/ strchr(suffix, "k")
        THEN Scale(sc.val, 3)
        ELSE IF strchr(suffix, "M") \/ strchr(suffix, "m")
        THEN Scale(sc.val, 6)
        ELSE sc.val

NoValue == <<>>

parse_resistor_value ==
    /\ pc = "parse" /\ value = NoValue
    /\ value' = ParseValue(label)
    /\ UNCHANGED <<ohms, code, label, r2r, r2r_output, hist>>
    /\ UNCHANGED hvars

ParseInit ==
    /\ pc = "parse"
    /\ HandlerIdle
    /\ ohms = <<0, 0>>
    /\ code = NoCode
    /\ label \in Labels
    /\ value = NoValue
    /\ r2r = <<>>
    /\ r2r_output = <<>>
    /\ hist = <<>>

ParseNext == parse_resistor_value

ParseSpec == ParseInit /\ [][ParseNext]_vars

(***************************************************************************)
(* Lines 24-32 and 697-950: the R-2R ladder calculator.  E24_BASE holds    *)
(* the base values in tenths, so a resistance is again a decimal <<m, e>>. *)
(* vref_text stands for the number atof makes of the text of the entry (0  *)
(* for a text that is no number); the choices are numbers a double holds   *)
(* exactly, so vref * d and the divisions by the power of two max_val are  *)
(* exact and the rational arithmetic is the arithmetic of the code.        *)
(***************************************************************************)
MAX_R2R_BITS == 24

E24_BASE == <<10, 11, 12, 13, 15, 16, 18, 20, 22, 24, 27, 30,
              33, 36, 39, 43, 47, 51, 56, 62, 68, 75, 82, 91>>

E24_COUNT == 24

E24_DECADES == 7

\* entries of combo_r_value tried: 1.0, 4.7, 10K (the default), 9.1M
RIndexChoices == {0, 16, 4 * E24_COUNT, E24_DECADES * E24_COUNT - 1}

\* entries of combo_bits: "2-bit" to "24-bit"
BitIndexChoices == 0..(MAX_R2R_BITS - 2)

VrefTexts == {RInt(-1), RInt(0), Rat(5, 2), RInt(5), RInt(12)}

Pow2(k) == 2 ^ k

\* E24_BASE[idx % E24_COUNT] * pow(10, idx / E24_COUNT)
get_r_value_from_index(idx) ==
    <<E24_BASE[(idx % E24_COUNT) + 1], (idx \div E24_COUNT) - 1>>

\* mutant: zero volts are kept
VrefOrDefaultBad(v) == IF v[1] < 0 THEN RInt(5) ELSE v

\* if (vref <= 0) vref = 5.0;
VrefOrDefault(v) == IF v[1] <= 0 THEN RInt(5) ELSE v

\* floor(x * 10^k) and what is left over, by long division
RECURSIVE ScaleFloor(_, _, _, _)
ScaleFloor(acc, rem, q, k) ==
    IF k = 0 THEN <<acc, rem>>
    ELSE ScaleFloor(acc * 10 + (rem * 10) \div q, (rem * 10) % q, q, k - 1)

\* the digits printf("%.kf") prints for v >= 0, as the integer v * 10^k
\* rounded to nearest, an exact tie going to the even digit
Fixed(v, k) ==
    LET sf == ScaleFloor(v[1] \div v[2], v[1] % v[2], v[2], k)
    IN  IF 2 * sf[2] > v[2] \/ (2 * sf[2] = v[2] /\ sf[1] % 2 = 1)
        THEN sf[1] + 1
        ELSE sf[1]

\* x >= 10^k for the decimal x > 0
AtLeastPow10(x, k) ==
    IF x[2] >= k THEN TRUE
    ELSE x[1] >= Pow10(k - x[2])

\* format_resistance: "%.1f" of the scaled value, in tenths, and the unit
format_resistance(x) ==
    IF AtLeastPow10(x, 6) THEN <<RoundDec(x[1], x[2] - 5), "MΩ">>
    ELSE IF AtLeastPow10(x, 3) THEN <<RoundDec(x[1], x[2] - 2), "KΩ">>
    ELSE <<RoundDec(x[1], x[2] + 1), "Ω">>

\* format_lsb: the digits of "%.3f" or "%.2f" and the unit
format_lsb(volts) ==
    IF RLe(RInt(1), volts) THEN <<Fixed(volts, 3), "V">>
    ELSE IF RLe(Rat(1, 1000), volts) THEN <<Fixed(volts, 5), "mV">>
    ELSE IF RLe(Rat(1, 1000000), volts) THEN <<Fixed(volts, 8), "µV">>
    ELSE <<Fixed(volts, 11), "nV">>

\* what insert_4band_visual can insert for ohms > 0
Visual4Band(x) ==
    LET nm == Norm4Band(x)
        d  == Digits4Band(nm.sig)
    IN  {<<"4-band: ", Box(c1), Box(c2), Box(cm), Box("Gold")>> :
            c1 \in Lookup(color_names, d[1]),
            c2 \in Lookup(color_names, d[2]),
            cm \in Lookup(multiplier_colors, nm.exp10)}

\* what get_smd_code can return for ohms > 0
SmdText(x) ==
    IF BelowTen(x)
    THEN {DecimalText(Whole(x)) \o <<"R">> \o DecimalText(frac) :
            frac \in SmdFrac(x)}
    ELSE {DecimalText(NormSmd(x).sig) \o DecimalText(NormSmd(x).exp10)}

\* mutant: one sample too few in the exhaustive table
NumSamplesBad(bits, max_val) == IF bits <= 4 THEN max_val - 1 ELSE 16

\* num_samples = (bits <= 4) ? (int)max_val : 16;
NumSamples(bits, max_val) == IF bits <= 4 THEN max_val ELSE 16

\* d = i, or (int)(i * (max_val - 1) / 15): the quotient is below 2^28 and,
\* where it is no integer, at least 1/15 away from one, so the double
\* division truncates to the exact floor
SampleCode(bits, max_val, k) ==
    IF bits <= 4 THEN k ELSE (k * (max_val - 1)) \div 15

\* the characters written for b = bits - 1 down to 0
Binary(d, nbits) ==
    [x \in 1..nbits |->
        IF (d \div Pow2(nbits - x)) % 2 = 1 THEN "1" ELSE "0"]

HexChars == <<"0", "1", "2", "3", "4", "5", "6", "7", "8", "9",
              "A", "B", "C", "D", "E", "F">>

\* "%0*X": at least ndigits hexadecimal digits
RECURSIVE Hex(_, _)
Hex(d, ndigits) ==
    IF ndigits <= 1 /\ d < 16 THEN <<HexChars[d + 1]>>
    ELSE Append(Hex(d \div 16, ndigits - 1), HexChars[(d % 16) + 1])

\* the stages the ladder diagram draws, top to bottom
Stages(bits) ==
    IF bits <= 6
    THEN [k \in 1..bits |-> [kind |-> "stage", bit |-> bits - k]]
    ELSE <<[kind |-> "stage", bit |-> bits - 1],
           [kind |-> "stage", bit |-> bits - 2],
           [kind |-> "more", stages |-> bits - 4],
           [kind |-> "stage", bit |-> 1],
           [kind |-> "stage", bit |-> 0]>>

\* the locals before the handler has run
Clicked(ri, bi, vt) ==
    [at |-> "start", r_idx |-> ri, bit_idx |-> bi, vref_text |-> vt,
     bits |-> 0, R |-> <<0, 0>>, R2 |-> <<0, 0>>, vref |-> RInt(0),
     r_count |-> 0, r2_count |-> 0, total |-> 0, max_val |-> 0,
     lsb |-> RInt(0), i |-> 0, num_samples |-> 0]

LadderFrame == <<ohms, code, label, value, hist>>

(***************************************************************************)
(* Lines 756-865: read the widgets, compute the ladder and write the       *)
(* header, the component summary, the specifications, the codes of R and   *)
(* 2R and the head of the sample table.                                    *)
(***************************************************************************)
on_r2r_generate_clicked ==
    /\ pc = "r2r" /\ r2r.at = "start"
    /\ LET bits     == r2r.bit_idx + 2
           R        == get_r_value_from_index(r2r.r_idx)
           R2       == <<2 * R[1], R[2]>>
           vref     == VrefOrDefault(r2r.vref_text)
           r_count  == bits - 1
           r2_count == bits + 1
           total    == r_count + r2_count
           max_val  == Pow2(bits)
           lsb      == Rat(vref[1], vref[2] * max_val)
       IN  /\ r2r' = [r2r EXCEPT !.at = "table", !.bits = bits, !.R = R,
                         !.R2 = R2, !.vref = vref, !.r_count = r_count,
                         !.r2_count = r2_count, !.total = total,
                         !.max_val = max_val, !.lsb = lsb, !.i = 0,
                         !.num_samples = NumSamples(bits, max_val)]
           /\ \E vR \in Visual4Band(R), sR \in SmdText(R),
                 vR2 \in Visual4Band(R2), sR2 \in SmdText(R2) :
                r2r_output' =
                   <<[kind |-> "header", bits |-> bits],
                     [kind |-> "components",
                      r_str |-> format_resistance(R),
                      r2_str |-> format_resistance(R2),
                      r_count |-> r_count, r2_count |-> r2_count,
                      total |-> total],
                     [kind |-> "specifications",
                      vref |-> Fixed(vref, 2),
                      lsb_str |-> format_lsb(lsb),
                      levels |-> max_val, top |-> max_val - 1,
                      max_vout |->
                          Fixed(Rat(vref[1] * (max_val - 1),
                                    vref[2] * max_val), 6)],
                     [kind |-> "code", of |-> "R", visual |-> vR,
                      smd |-> sR],
                     [kind |-> "code", of |-> "2R", visual |-> vR2,
                      smd |-> sR2],
                     [kind |-> "table_head",
                      columns |-> IF bits <= 12 THEN "Binary" ELSE "Hex"]>>
    /\ UNCHANGED LadderFrame
    /\ UNCHANGED hvars

(***************************************************************************)
(* Lines 866-896: one pass of the sample loop.                             *)
(***************************************************************************)
SampleRow ==
    /\ pc = "r2r" /\ r2r.at = "table"
    /\ r2r.i < r2r.num_samples
    /\ LET d       == SampleCode(r2r.bits, r2r.max_val, r2r.i)
           voltage == Rat(r2r.vref[1] * d, r2r.vref[2] * r2r.max_val)
           code_str == IF r2r.bits <= 12
                       THEN Binary(d, r2r.bits)
                       ELSE <<"0", "x">> \o Hex(d, (r2r.bits + 3) \div 4)
       IN  r2r_output' = Append(r2r_output,
                                [kind |-> "row", code_str |-> code_str,
                                 d |-> d, voltage |-> voltage,
                                 shown |-> Fixed(voltage, 6)])
    /\ r2r' = [r2r EXCEPT !.i = @ + 1]
    /\ UNCHANGED LadderFrame
    /\ UNCHANGED hvars

(***************************************************************************)
(* Lines 898-950: the ladder diagram and the explanation.                  *)
(***************************************************************************)
LadderDiagram ==
    /\ pc = "r2r" /\ r2r.at = "table"
    /\ r2r.i >= r2r.num_samples
    /\ r2r_output' = r2r_output \o <<[kind |-> "diagram"]>>
                        \o Stages(r2r.bits) \o <<[kind |-> "how"]>>
    /\ r2r' = [r2r EXCEPT !.at = "done"]
    /\ UNCHANGED LadderFrame
    /\ UNCHANGED hvars

LadderInit ==
    /\ pc = "r2r"
    /\ HandlerIdle
    /\ ohms = <<0, 0>>
    /\ code = NoCode
    /\ label = <<>>
    /\ value = NoValue
    /\ \E ri \in RIndexChoices, bi \in BitIndexChoices, vt \in VrefTexts :
           r2r = Clicked(ri, bi, vt)
    /\ r2r_output = <<>>
    /\ hist = <<>>

LadderNext ==
    \/ on_r2r_generate_clicked
    \/ SampleRow
    \/ LadderDiagram

LadderSpec == LadderInit /\ [][LadderNext]_vars

(***************************************************************************)
(* Repeated calculations.  Every click on Calculate calls                  *)
(* on_calculate_clicked afresh: its locals are initialised again (lines    *)
(* 409-417), nothing of it is static, and the heap blocks of the previous  *)
(* call have been freed.  What stays is the user interface: the text       *)
(* buffer keeps its contents until a call sets them, and stderr keeps what *)
(* was printed.  Three calls are made: one with some input, one with any   *)
(* input, and one with the input of the first; hist records what the first *)
(* call left and what the buffer held when the current call began.         *)
(***************************************************************************)
\* the inputs tried: one value with and without results, no value selected,
\* an invalid target
RepeatInputs ==
    {<<{1}, 100, <<0>>>>, <<{2}, 100, <<0>>>>, <<{}, 100, <<40>>>>,
     <<{1}, -5, <<>>>>}

\* mutant: found keeps the value of the previous call
FreshFoundBad == found

\* int found = 0;
FreshFound == FALSE

\* what a call leaves behind when it returns
Outcome ==
    [inputs |-> <<selected, target_text, tol_text>>,
     allocated |-> allocated, networks |-> networks, count |-> count,
     results |-> results, num_results |-> num_results, output |-> output,
     wrote |-> Len(errlog)]

Click ==
    /\ pc = "done" /\ hist # <<>>
    /\ hist.call \in {"first", "other"}
    /\ \E inp \in (IF hist.call = "first" THEN RepeatInputs
                    ELSE {hist.first.inputs}) :
          /\ selected' = inp[1]
          /\ target_text' = inp[2]
          /\ tol_text' = inp[3]
    /\ pc' = "start"
    /\ available' = <<>>
    /\ target' = RInt(0) /\ tolPerc' = RInt(0) /\ tol' = RInt(0)
    /\ allocated' = {}
    /\ frees' = [blk \in Blocks |-> 0]
    /\ networks' = [k \in 0..MAX_N |-> <<>>]
    /\ count' = [k \in 0..MAX_N |-> 0]
    /\ n' = 0 /\ i' = 0 /\ a' = 0 /\ b' = 0
    /\ results' = <<>> /\ num_results' = 0
    /\ found' = FreshFound
    /\ UNCHANGED <<output, errlog>>
    /\ hist' = [call |-> IF hist.call = "first" THEN "other" ELSE "again",
                first |-> IF hist.call = "first" THEN Outcome ELSE hist.first,
                before |-> output, errlen |-> Len(errlog)]
    /\ UNCHANGED <<ohms, code, label, value, r2r, r2r_output>>

RepeatInit ==
    /\ pc = "start"
    /\ \E inp \in RepeatInputs :
          /\ selected = inp[1]
          /\ target_text = inp[2]
          /\ tol_text = inp[3]
    /\ available = <<>>
    /\ target = RInt(0) /\ tolPerc = RInt(0) /\ tol = RInt(0)
    /\ allocated = {}
    /\ frees = [blk \in Blocks |-> 0]
    /\ networks = [k \in 0..MAX_N |-> <<>>]
    /\ count = [k \in 0..MAX_N |-> 0]
    /\ n = 0 /\ i = 0 /\ a = 0 /\ b = 0
    /\ results = <<>> /\ num_results = 0
    /\ found = FALSE
    /\ output = <<>> /\ errlog = <<>>
    /\ ohms = <<0, 0>>
    /\ code = NoCode
    /\ label = <<>>
    /\ value = NoValue
    /\ r2r = <<>>
    /\ r2r_output = <<>>
    /\ hist = [call |-> "first", first |-> <<>>, before |-> <<>>, errlen |-> 0]

RepeatNext == Next \/ Click

RepeatSpec == RepeatInit /\ [][RepeatNext]_vars

(***************************************************************************)
(* Verification conditions.                                                *)
(***************************************************************************)
Stored(k) == 1..count[k]

\* x * y, cross-reduced before multiplying
RMul(x, y) ==
    LET g1 == Gcd(Abs(x[1]), y[2])
        g2 == Gcd(Abs(y[1]), x[2])
    IN  Rat((x[1] \div g1) * (y[1] \div g2), (x[2] \div g2) * (y[2] \div g1))

\* the report has been (or is being) written from the sorted results
Ranked ==
    \/ pc \in {"header", "display", "footer", "free_results"}
    \/ pc \in {"cleanup", "done"} /\ RESULTS_BLK \in allocated

\* the report is complete
Reported ==
    \/ pc = "free_results"
    \/ pc \in {"cleanup", "done"} /\ RESULTS_BLK \in allocated

\* C1: every network stored in bucket k uses exactly k resistors (n = k) and
\* tracks at most min(k, MAX_RESISTORS_PER_NET) parts, at every point of the
\* calculation.
C1_SizeInvariant ==
    \A k \in 1..MAX_N : \A x \in Stored(k) :
        /\ networks[k][x].n = k
        /\ networks[k][x].num_parts <= Min(k, MAX_RESISTORS_PER_NET)
        /\ networks[k][x].num_parts = Len(networks[k][x].parts)

\* C1 witness: the build is under way, every bucket holds entries and the
\* largest one holds a network of positive resistance tracking MAX_N parts.
C1_Witness ==
    /\ pc = "b_loop"
    /\ n = MAX_N
    /\ \A k \in 1..MAX_N : count[k] > 0
    /\ \E x \in Stored(MAX_N) :
           networks[MAX_N][x].num_parts = MAX_N /\ RPos(networks[MAX_N][x].R)

\* C2: every stored series network has resistance A.R + B.R of the two
\* networks it was built from; a parallel network exists only for A.R > 0 and
\* B.R > 0 and then R * (A.R + B.R) = A.R * B.R, i.e. R = 1/(1/A.R + 1/B.R);
\* both carry A's parts followed by B's parts, cut to MAX_RESISTORS_PER_NET.
C2_SeriesParallel ==
    \A k \in 2..MAX_N : \A x \in Stored(k) :
        LET e  == networks[k][x]
            A  == Net(e.src.i, e.src.a)
            B  == Net(e.src.j, e.src.b)
            ab == A.parts \o B.parts
        IN  /\ e.src.op \in {"series", "parallel"}
            /\ e.src.op = "series" =>
                 e.R[1] * (A.R[2] * B.R[2])
                     = (A.R[1] * B.R[2] + B.R[1] * A.R[2]) * e.R[2]
            /\ e.src.op = "parallel" =>
                 /\ A.R[1] > 0
                 /\ B.R[1] > 0
                 /\ RMul(e.R, RAdd(A.R, B.R)) = RMul(A.R, B.R)
            /\ e.parts = SubSeq(ab, 1, Min(Len(ab), MAX_RESISTORS_PER_NET))

\* C2 witness: the bucket under construction holds a parallel network and
\* also a series network of a pair with a non-positive operand.
C2_Witness ==
    /\ pc = "b_loop"
    /\ \E x \in Stored(n) : networks[n][x].src.op = "parallel"
    /\ \E x \in Stored(n) :
          /\ networks[n][x].src.op = "series"
          /\ ~RPos(Net(networks[n][x].src.j, networks[n][x].src.b).R)

\* the unordered index pairs of the entries of bucket k made with operator op
\* from the split i = j
EqualSplit(k, op) ==
    {x \in Stored(k) : networks[k][x].src.op = op
                       /\ networks[k][x].src.i = networks[k][x].src.j}

PairOf(e) == {e.src.a, e.src.b}

\* C3: among the entries of a bucket built from a split with i = j, no two
\* series (or two parallel) networks come from the same unordered pair of
\* operands, and each comes from indices with a <= b.
C3_NoDuplicatePairs ==
    \A k \in 2..MAX_N : \A op \in {"series", "parallel"} :
        /\ Cardinality({PairOf(networks[k][x]) : x \in EqualSplit(k, op)})
               = Cardinality(EqualSplit(k, op))
        /\ \A x \in EqualSplit(k, op) :
               networks[k][x].src.a <= networks[k][x].src.b

\* C3 witness: bucket 4 holds a network made from two different entries of
\* bucket 2.
C3_Witness ==
    /\ pc = "b_loop"
    /\ n = 4
    /\ \E x \in EqualSplit(4, "series") :
           networks[4][x].src.a < networks[4][x].src.b

\* C4: once sorted, consecutive results have non-decreasing error, and equal
\* errors are in order of non-decreasing n.
C4_RankingOrder ==
    Ranked =>
        \A k \in 1..(num_results - 1) :
            /\ RLe(results[k].error, results[k + 1].error)
            /\ results[k].error = results[k + 1].error
                   => results[k].n <= results[k + 1].n

\* C4 witness: a sorted list with a tie between different sizes and with
\* two different errors.
C4_Witness ==
    /\ pc = "header"
    /\ \E k \in 1..(num_results - 1) :
           /\ results[k].error = results[k + 1].error
           /\ results[k].n < results[k + 1].n
    /\ \E k \in 1..(num_results - 1) :
           RLt(results[k].error, results[k + 1].error)

\* C5: every result has error * target = |R - target| and error at most
\* tolPerc / 100, and every result line of the report refers to such a
\* result.
C5_ToleranceFilter ==
    /\ \A k \in 1..Len(results) :
           /\ RMul(results[k].error, target) = RAbs(RSub(results[k].R, target))
           /\ RLe(RMul(results[k].error, RInt(100)), tolPerc)
    /\ \A l \in 1..Len(output) :
           output[l].kind = "result" =>
               /\ output[l].idx + 1 \in 1..Len(results)
               /\ RLe(RMul(results[output[l].idx + 1].error, RInt(100)), tolPerc)

\* C5 witness: a report with a result line, from a run in which some
\* enumerated network was outside the tolerance.
C5_Witness ==
    /\ pc = "footer"
    /\ \E l \in 1..Len(output) : output[l].kind = "result"
    /\ \E k \in 1..MAX_N : \E x \in Stored(k) :
           ~RLe(RelError(networks[k][x].R, target), tol)

\* every enumerated network, as <<bucket, position>>, and those within tolerance
Enumerated ==
    {e \in (1..MAX_N) \X (1..MAX_NETWORKS) : e[2] \in Stored(e[1])}

AllWithin ==
    {e \in Enumerated : RLe(RelError(networks[e[1]][e[2]].R, target), tol)}

\* rank order: smaller error first, then fewer resistors
Better(e1, n1, e2, n2) == RLt(e1, e2) \/ (e1 = e2 /\ n1 < n2)

\* positions in results of the entries the report lists
Displayed ==
    {output[l].idx + 1 : l \in {m \in 1..Len(output) : output[m].kind = "result"}}

\* C6 (as claimed): the report lists min(total, MAX_RESULTS) entries, total
\* being the number of enumerated networks within tolerance, and every
\* enumerated network within tolerance that ranks strictly better than a
\* listed entry is listed too (as many listed entries rank better than it as
\* enumerated networks within tolerance do).
C6_BestOfAllEnumerated ==
    Reported =>
        /\ Cardinality(Displayed) = Min(Cardinality(AllWithin), MAX_RESULTS)
        /\ \A d \in Displayed :
               Cardinality({e \in AllWithin :
                               Better(RelError(networks[e[1]][e[2]].R, target),
                                      networks[e[1]][e[2]].n,
                                      results[d].error, results[d].n)})
                   = Cardinality({c \in Displayed :
                                     Better(results[c].error, results[c].n,
                                            results[d].error, results[d].n)})

\* C7 (as claimed): the header's "Found N" is the number of enumerated
\* networks within tolerance, and the "more results" line reports that
\* number minus MAX_RESULTS.
C7_TrueCount ==
    Reported =>
        /\ output[1].kind = "header"
        /\ output[1].found = Cardinality(AllWithin)
        /\ \A l \in 1..Len(output) :
               output[l].kind = "more" =>
                   output[l].more = Cardinality(AllWithin) - MAX_RESULTS

\* the scenario target = 100, tolerance 0%, available = {100}
Scenario100 == selected = {1} /\ target_text = 100 /\ tol_text = <<0>>

\* C8 (as claimed): the scenario yields exactly one result, an exact match
\* made of one resistor.
C8_ExactlyOneExactMatch ==
    (Ranked /\ Scenario100) =>
        /\ num_results = 1
        /\ results[1].error = RInt(0)
        /\ results[1].n = 1

\* C8 (amended): in the scenario every result is an exact match, exactly one
\* of them is made of one resistor, and that one is ranked first.
C8_ExactMatchRankedFirst ==
    (Ranked /\ Scenario100) =>
        /\ num_results >= 1
        /\ \A k \in 1..num_results : results[k].error = RInt(0)
        /\ results[1].n = 1
        /\ results[1].R = RInt(100)
        /\ Cardinality({k \in 1..num_results : results[k].n = 1}) = 1

\* C8 witness: the scenario's report is complete and lists an exact match
\* made of four resistors.
C8_Witness ==
    /\ pc = "done"
    /\ Scenario100
    /\ found
    /\ \E k \in 1..num_results : results[k].n = 4 /\ results[k].error = RInt(0)

HasLine(kind) == \E l \in 1..Len(output) : output[l].kind = kind

\* C9: when the report is complete and no enumerated network is within
\* tolerance, the result list is empty, found is false and the "No network
\* found" line is written; found is true, and that line absent, exactly when
\* there is at least one result.
C9_EmptyResult ==
    Reported =>
        /\ AllWithin = {} => (results = <<>> /\ num_results = 0 /\ ~found
                              /\ HasLine("no_network"))
        /\ found <=> num_results >= 1
        /\ found <=> ~HasLine("no_network")
        /\ num_results >= 1 <=> AllWithin # {}

\* C9 witness: a complete report of a run that enumerated networks, none
\* within tolerance.
C9_Witness ==
    /\ pc = "done"
    /\ Reported
    /\ count[MAX_N] > 0
    /\ AllWithin = {}
    /\ HasLine("no_network")

\* C10: with a target <= 0 the handler ends right after writing the target
\* error: nothing is allocated, no bucket or result is filled, and the
\* relative error is only ever computed with a positive target.
C10_InvalidTarget ==
    /\ (target_text <= 0 /\ pc # "start") =>
           /\ pc = "done"
           /\ output = <<[kind |-> "error_target"]>>
           /\ allocated = {}
           /\ \A k \in 0..MAX_N : count[k] = 0 /\ networks[k] = <<>>
           /\ results = <<>> /\ num_results = 0
           /\ errlog = <<>>
    /\ pc \in {"collect_n", "collect_i"} => target[1] > 0

\* C10 witness: the handler has returned on a non-positive target.
C10_Witness ==
    /\ pc = "done"
    /\ target_text <= 0
    /\ output = <<[kind |-> "error_target"]>>

\* C11: when no resistor value is selected (numAvail = 0) and the target is
\* valid, the handler has written the "select at least one resistor" message
\* and returned: no block was ever allocated, nothing was freed, no bucket
\* or result was filled, nothing was ranked or reported.
C11_NoAvailableValues ==
    (pc # "start" /\ numAvail = 0 /\ ~TargetInvalid(target)) =>
        /\ pc = "done"
        /\ output = <<[kind |-> "error_select"]>>
        /\ allocated = {}
        /\ \A blk \in Blocks : frees[blk] = 0
        /\ \A k \in 0..MAX_N : count[k] = 0 /\ networks[k] = <<>>
        /\ results = <<>> /\ num_results = 0
        /\ ~found
        /\ errlog = <<>>

C11_Witness ==
    /\ pc = "done"
    /\ selected = {}
    /\ target_text = 100
    /\ output = <<[kind |-> "error_select"]>>

\* an allocation failed: the handler logged it with g_printerr
AllocFailed == errlog # <<>>

\* C12: if an allocation fails (the pointer table, one of the MAX_N + 1
\* buckets, or the results array) the handler aborts: it goes to the cleanup
\* and returns, nothing is written to the output, the results array is
\* neither used nor freed, no block is freed twice, and on return every
\* block that was allocated before the failure has been freed exactly once
\* (and nothing else was freed).
C12_AllocationFailure ==
    AllocFailed =>
        /\ pc \in {"cleanup", "done"}
        /\ output = <<>>
        /\ results = <<>> /\ num_results = 0
        /\ RESULTS_BLK \notin allocated
        /\ \A blk \in Blocks : frees[blk] <= 1
        /\ pc = "done" =>
               \A blk \in Blocks :
                   frees[blk] = (IF blk \in allocated THEN 1 ELSE 0)

\* the results array could not be allocated after the enumeration filled
\* the buckets; the table and all buckets were freed
C12_Witness ==
    /\ pc = "done"
    /\ errlog = <<"Memory allocation failed for results">>
    /\ allocated = 0..TABLE_BLK
    /\ count[MAX_N] > 0
    /\ \A blk \in 0..TABLE_BLK : frees[blk] = 1

\* the entry of bucket k formed from the pair (ii, aa), (jj, bb) with op
StoredAs(bucket, op, ii, aa, jj, bb) ==
    \E e \in 1..Len(bucket) :
        bucket[e].src = [op |-> op, i |-> ii, a |-> aa, j |-> jj, b |-> bb]

\* the loop body of the build loops runs for the pair (a, b)
PairStep == pc = "b_loop" /\ b < count[j_idx]

\* the body of the collection loop runs for entry i of bucket n
CollectStep == pc = "collect_i" /\ i < count[n]

EnumerationPcs == {"base", "n_loop", "i_loop", "a_loop", "b_loop",
                   "collect_n", "collect_i"}

\* what one step of the handler does with the buckets and the results
CapStep ==
    \* the counters never exceed the capacity, and every entry written lies
    \* below the capacity malloc was asked for, in a block that was allocated
    /\ \A k \in 0..MAX_N :
           /\ count'[k] <= MAX_NETWORKS
           /\ Len(networks'[k]) <= MAX_NETWORKS
           /\ Len(networks'[k]) > 0 => k \in allocated'
    /\ num_results' <= MAX_NETWORKS
    /\ Len(results') <= MAX_NETWORKS
    /\ Len(results') > 0 => RESULTS_BLK \in allocated'
    \* a series candidate is dropped only if the bucket was full already; a
    \* parallel candidate (both operands positive) only if the bucket is full
    /\ PairStep =>
           /\ \/ StoredAs(networks'[n], "series", i, a, j_idx, b)
              \/ count[n] = MAX_NETWORKS
           /\ ParallelGuard(Net(i, a), Net(j_idx, b)) =>
                  \/ StoredAs(networks'[n], "parallel", i, a, j_idx, b)
                  \/ count'[n] = MAX_NETWORKS
    \* a network within tolerance is dropped only if results was full already
    /\ (CollectStep /\ WithinTol(RelError(Net(n, i).R, target), tol)) =>
           \/ /\ num_results' = num_results + 1
              /\ results'[num_results'].expr = Net(n, i).expr
           \/ num_results = MAX_NETWORKS
    \* no error outcome: the enumeration goes on, nothing is logged or shown
    /\ pc \in EnumerationPcs =>
           /\ errlog' = errlog
           /\ output' = output
           /\ pc' \in EnumerationPcs \cup {"alloc_results", "sort"}

\* C13: at every point of a calculation count[k] <= MAX_NETWORKS for every
\* bucket k and num_results <= MAX_NETWORKS, every write lands below the
\* allocated capacity, a candidate is discarded only when its bucket (or the
\* results array) is already full, and hitting a cap is not an error: the
\* calculation continues, with nothing logged and no message shown.
C13_ResourceCap == [][CapStep]_vars

\* bucket MAX_N and the results array were both filled to the cap and the
\* calculation ended with a report
C13_Witness ==
    /\ pc = "done"
    /\ count[MAX_N] = MAX_NETWORKS
    /\ num_results = MAX_NETWORKS
    /\ errlog = <<>>
    /\ HasLine("header") /\ HasLine("result")

\* some collected value is zero or negative
NonPositiveCollected == \E k \in 1..numAvail : ~RPos(available[k])

\* C14: every resistor value that enters the combination logic (every
\* element of available[] stored in bucket 1) is > 0, and when parsing a
\* label gave a zero or negative value the handler rejects it before the
\* enumeration starts (it ends with nothing allocated and no bucket filled).
C14_PositiveValues ==
    /\ \A e \in 1..Len(networks[1]) : RPos(networks[1][e].R)
    /\ (pc # "start" /\ NonPositiveCollected) =>
           /\ pc = "done"
           /\ allocated = {}
           /\ \A k \in 0..MAX_N : networks[k] = <<>>

\* one of the colour-code functions has been called on ohms
CodeCalled == pc = "codes" /\ code # NoCode

\* C15: for every ohms <= 0, each colour-code function (4-band, 5-band and
\* SMD as strings, 4-band and 5-band in visual form) produces exactly the
\* text "(invalid)" and performs no logarithm, no division and no table
\* lookup.
C15_InvalidCodeInput ==
    (CodeCalled /\ ohms[1] <= 0) =>
        /\ code.text = <<"(invalid)">>
        /\ code.ops = {}
        /\ code.idx = <<>>

C15_Witness ==
    /\ CodeCalled
    /\ ohms = <<0, 0>>
    /\ code.fn = "insert_5band_visual"
    /\ code.text = <<"(invalid)">>

\* the standard colour of a digit or of a power-of-ten multiplier
StdColour(d) ==
    CASE d = 0 -> "Black" [] d = 1 -> "Brown" [] d = 2 -> "Red"
      [] d = 3 -> "Orange" [] d = 4 -> "Yellow" [] d = 5 -> "Green"
      [] d = 6 -> "Blue" [] d = 7 -> "Violet" [] d = 8 -> "Grey"
      [] d = 9 -> "White"

\* x < y for positive decimals x = <<m, e>>, y = <<m2, e2>>
DecLt(x, y) ==
    IF FloorLog10(x) # FloorLog10(y) THEN FloorLog10(x) < FloorLog10(y)
    ELSE LET lo == Min(x[2], y[2])
         IN  x[1] * Pow10(x[2] - lo) < y[1] * Pow10(y[2] - lo)

DecLe(x, y) == ~DecLt(y, x)

\* x, rounded to two significant digits (halves up), is s * 10^e, 10 <= s <= 99:
\* (s - 1/2) * 10^e <= x < (s + 1/2) * 10^e, and 9.95 * 10^e <= x for s = 10
TwoSigForm(x, s, e) ==
    /\ DecLe(IF s = 10 THEN <<199, e - 1>> ELSE <<2 * s - 1, e>>,
             <<2 * x[1], x[2]>>)
    /\ DecLt(<<2 * x[1], x[2]>>, <<2 * s + 1, e>>)

\* x, rounded to three significant digits, is s * 10^e, 100 <= s <= 999
ThreeSigForm(x, s, e) ==
    /\ DecLe(IF s = 100 THEN <<1999, e - 1>> ELSE <<2 * s - 1, e>>,
             <<2 * x[1], x[2]>>)
    /\ DecLt(<<2 * x[1], x[2]>>, <<2 * s + 1, e>>)

\* TwoSigForm(x, s, e) and ThreeSigForm(x, s, e) force s * 10^e to be within
\* half a unit of x: e is at most 3 below floor(log10(x)) and s is within 1 of
\* x / 10^e.  Only these candidates need to be looked at.
NearExps(x) == {e \in 0..9 : e \in (FloorLog10(x) - 3)..FloorLog10(x)}

NearSigs(x, e) ==
    LET q == IF x[2] >= e THEN x[1] * Pow10(x[2] - e)
             ELSE x[1] \div Pow10(e - x[2])
    IN  (q - 1)..(q + 1)

\* the bands of a visual code as a text, without its title
Bands(c) ==
    IF c.fn \in {"insert_4band_visual", "insert_5band_visual"}
    THEN [p \in 1..(Len(c.text) - 1) |-> c.text[p + 1].box]
    ELSE c.text

\* C16: for every resistance whose two-significant-digit form is
\* d1 d2 x 10^e with 0 <= e <= 9 the 4-band code (string and visual) is
\* colour(d1)-colour(d2)-colour(e)-Gold; for every resistance whose
\* three-significant-digit form is d1 d2 d3 x 10^e with 0 <= e <= 9 the
\* 5-band code is colour(d1)-colour(d2)-colour(d3)-colour(e)-Brown; 4700
\* gives Yellow-Violet-Red-Gold and Yellow-Violet-Black-Brown-Brown.
C16_ColourBandEncoding ==
    (CodeCalled /\ ohms[1] > 0) =>
        /\ code.fn \in {"get_4band_code", "insert_4band_visual"} =>
               \A e \in NearExps(ohms) :
                   \A s \in NearSigs(ohms, e) \cap 10..99 :
                       TwoSigForm(ohms, s, e) =>
                           Bands(code) = <<StdColour(s \div 10),
                                           StdColour(s % 10),
                                           StdColour(e), "Gold">>
        /\ code.fn \in {"get_5band_code", "insert_5band_visual"} =>
               \A e \in NearExps(ohms) :
                   \A s \in NearSigs(ohms, e) \cap 100..999 :
                       ThreeSigForm(ohms, s, e) =>
                           Bands(code) = <<StdColour(s \div 100),
                                           StdColour((s \div 10) % 10),
                                           StdColour(s % 10), StdColour(e),
                                           "Brown">>
        /\ (ohms = <<47, 2>> /\ code.fn = "get_4band_code") =>
               code.text = <<"Yellow", "Violet", "Red", "Gold">>
        /\ (ohms = <<47, 2>> /\ code.fn = "get_5band_code") =>
               code.text = <<"Yellow", "Violet", "Black", "Brown", "Brown">>

\* 99950 ohm rounds up to 100 x 10^3 in the 5-band code
C16_Witness ==
    /\ CodeCalled
    /\ ohms = <<9995, 1>>
    /\ ThreeSigForm(ohms, 100, 3)
    /\ code.text = <<"Brown", "Black", "Black", "Orange", "Brown">>

\* C17: for every positive resistance, values below 1 ohm and above
\* 9.1 Gohm included, the 4-band and 5-band functions (string and visual)
\* finish with every digit index d1, d2, d3 in 0..9 and the multiplier index
\* exp10 in 0..9, so that every read of the 10-entry colour tables is in
\* bounds and the text holds table colours only.
C17_Saturation ==
    (CodeCalled /\ ohms[1] > 0 /\ code.fn # "get_smd_code") =>
        /\ \A p \in 1..Len(code.idx) : code.idx[p] \in 0..9
        /\ code.exp10[1] \in 0..9
        /\ \A p \in 1..Len(Bands(code)) :
               Bands(code)[p] \in {StdColour(d) : d \in 0..9}
                                   \cup {"Gold", "Brown"}

\* C18: for every ohms >= 10 the SMD output is the two-digit significand
\* followed by the exponent, and significand and exponent are exactly the
\* values 10 * d1 + d2 and exp10 that the 4-band normalisation yields for the
\* same ohms; 4700 gives 47 and 2, the text "472".
C18_SmdAsFourBand ==
    (CodeCalled /\ code.fn = "get_smd_code" /\ ohms[1] > 0
         /\ DecLe(<<10, 0>>, ohms)) =>
        LET nm == Norm4Band(ohms)
            d  == Digits4Band(nm.sig)
        IN  /\ code.sig = <<10 * d[1] + d[2]>>
            /\ code.exp10 = <<nm.exp10>>
            /\ code.sig[1] \in 10..99
            /\ code.text = DecimalText(code.sig[1]) \o DecimalText(nm.exp10)
            /\ ohms = <<47, 2>> => code.text = <<"4", "7", "2">>

\* parse_resistor_value has returned for label
Parsed == pc = "parse" /\ value # NoValue

\* m * 10^e without the trailing zeros of m
RECURSIVE Strip(_, _)
Strip(m, e) ==
    IF m = 0 THEN <<0, 0>>
    ELSE IF m % 10 = 0 THEN Strip(m \div 10, e + 1)
    ELSE <<m, e>>

\* two values are the same number
SameValue(x, y) == x[1] = y[1] /\ Strip(x[2], x[3]) = Strip(y[2], y[3])

\* the label begins with a decimal number: digits, optionally a point and
\* more digits; NumeralEnd is the position after it
BeginsWithNumber(s) == Len(s) >= 1 /\ isdigit(s[1])

NumeralEnd(s) ==
    LET i1 == ScanDigits(s, 1)
    IN  IF i1 <= Len(s) /\ s[i1] = "." THEN ScanDigits(s, i1 + 1) ELSE i1

\* the decimal number v the label begins with
NumeralValue(s) ==
    LET i1 == ScanDigits(s, 1)
        q  == NumeralEnd(s)
    IN  <<"num", DigitsValue(s, 1, q, 0), IF q > i1 THEN -(q - (i1 + 1)) ELSE 0>>

\* the first character after the number and the white space that follows it
\* is one of cs
HasSuffix(s, cs) ==
    LET r == SkipSpace(s, NumeralEnd(s))
    IN  r <= Len(s) /\ s[r] \in cs

\* C19: for every label that begins with a decimal number v, the parser
\* returns v * 1000 if the label has a suffix K or k, v * 1000000 if it has
\* a suffix M or m, and v otherwise: any other characters after the number
\* (unit symbols, words) are ignored and never change the multiplier.
C19_ValueParserMultiplier ==
    (Parsed /\ BeginsWithNumber(label)) =>
        LET v == NumeralValue(label)
        IN  SameValue(value,
                      IF HasSuffix(label, {"K", "k"}) THEN Scale(v, 3)
                      ELSE IF HasSuffix(label, {"M", "m"}) THEN Scale(v, 6)
                      ELSE v)

\* after optional white space and sign the label goes on with a digit, or
\* with a point and a digit
HasLeadingNumber(s) ==
    LET p0 == SkipSpace(s, 1)
        p1 == IF p0 <= Len(s) /\ s[p0] = "-" THEN p0 + 1 ELSE p0
    IN  \/ p1 <= Len(s) /\ isdigit(s[p1])
        \/ p1 + 1 <= Len(s) /\ s[p1] = "." /\ isdigit(s[p1 + 1])

\* C20: for every label with no leading numeric token the parser returns 0,
\* never another value, whatever the rest of the label holds.
C20_ValueParserFailure ==
    (Parsed /\ ~HasLeadingNumber(label)) => value = <<"num", 0, 0>>

(***************************************************************************)
(* Ladder claims, on LadderSpec.                                           *)
(***************************************************************************)
\* on_r2r_generate_clicked has computed the ladder
LadderComputed == pc = "r2r" /\ r2r # <<>> /\ r2r.at # "start"

\* the reference voltage the claim prescribes for the text of the entry
SuppliedVref == IF RLe(r2r.vref_text, RInt(0)) THEN RInt(5) ELSE r2r.vref_text

\* C21: once the ladder is computed, bits is the selected width in 2..24,
\* rCount = bits - 1, r2Count = bits + 1 and lsb * 2^bits is the supplied
\* reference voltage, with 5.0 in place of a supplied vref <= 0; the
\* component summary prints these counts; and R = 10000, bits = 8,
\* vref = 5.0 give rCount 7, r2Count 9 and lsb = 5/256.
C21_LadderParameters ==
    LadderComputed =>
        /\ r2r.bits \in 2..MAX_R2R_BITS
        /\ r2r.bits = r2r.bit_idx + 2
        /\ r2r.r_count = r2r.bits - 1
        /\ r2r.r2_count = r2r.bits + 1
        /\ r2r.vref = SuppliedVref
        /\ RMul(r2r.lsb, RInt(Pow2(r2r.bits))) = SuppliedVref
        /\ r2r_output[2].r_count = r2r.bits - 1
        /\ r2r_output[2].r2_count = r2r.bits + 1
        /\ (r2r.R = <<10, 3>> /\ r2r.bits = 8 /\ SuppliedVref = RInt(5)) =>
               /\ r2r.r_count = 7
               /\ r2r.r2_count = 9
               /\ r2r.lsb = Rat(5, 256)

\* the default entries with an entry text that is no positive number
C21_Witness ==
    /\ LadderComputed
    /\ r2r.at = "done"
    /\ r2r.R = <<10, 3>> /\ r2r.bits = 8 /\ r2r.vref_text = RInt(0)
    /\ r2r.r_count = 7 /\ r2r.r2_count = 9 /\ r2r.lsb = <<5, 256>>

\* the rows of the sample table written so far
IsRow(l) == l.kind = "row"

Rows == SelectSeq(r2r_output, IsRow)

\* d = floor(k * (2^bits - 1) / 15), stated without a division
IsEvenlySpaced(d, k, bits) ==
    /\ 15 * d <= k * (Pow2(bits) - 1)
    /\ k * (Pow2(bits) - 1) < 15 * (d + 1)

\* C22: the k-th row of the sample table holds code k - 1 when bits <= 4
\* and floor((k - 1) * (2^bits - 1) / 15) otherwise; the codes are strictly
\* increasing; every row's voltage times 2^bits is vref * d; the finished
\* table has 2^bits rows (all codes 0..2^bits - 1) when bits <= 4 and
\* otherwise 16 rows from code 0 to code 2^bits - 1; at 8 bits and vref 5
\* code 255 is listed with 5 * 255 / 256, printed as 4.980469.
C22_LadderSampleTable ==
    LadderComputed =>
        /\ \A k \in 1..Len(Rows) :
              /\ IF r2r.bits <= 4
                 THEN Rows[k].d = k - 1
                 ELSE IsEvenlySpaced(Rows[k].d, k - 1, r2r.bits)
              /\ k > 1 => Rows[k - 1].d < Rows[k].d
              /\ RMul(Rows[k].voltage, RInt(Pow2(r2r.bits)))
                     = RMul(r2r.vref, RInt(Rows[k].d))
        /\ r2r.at = "done" =>
              /\ Len(Rows) = IF r2r.bits <= 4 THEN Pow2(r2r.bits) ELSE 16
              /\ Rows[1].d = 0
              /\ Rows[Len(Rows)].d = Pow2(r2r.bits) - 1
              /\ (r2r.bits = 8 /\ r2r.vref = RInt(5)) =>
                     /\ Rows[16].d = 255
                     /\ Rows[16].voltage = Rat(5 * 255, 256)
                     /\ Rows[16].shown = 4980469

\* the finished 8-bit table at vref 5 with its last row
C22_Witness ==
    /\ LadderComputed
    /\ r2r.at = "done" /\ r2r.bits = 8 /\ r2r.vref_text = RInt(5)
    /\ Len(Rows) = 16
    /\ Rows[16].d = 255

(***************************************************************************)
(* Claims on the calculation as a whole, on Spec.                          *)
(***************************************************************************)
\* the report lists the enumerated network e
Shows(e) ==
    \E d \in Displayed :
        /\ results[d].expr = networks[e[1]][e[2]].expr
        /\ results[d].R = networks[e[1]][e[2]].R
        /\ results[d].n = networks[e[1]][e[2]].n

\* C23 (as claimed): once the report is complete, every network of up to
\* MAX_N selected values whose resistance is within the tolerance of the
\* target is listed in the output; stated for the networks the enumeration
\* itself has stored, which are among those combinations.
C23_AllCombinationsShown ==
    Reported => \A e \in AllWithin : Shows(e)

(***************************************************************************)
(* Claims on repeated calculations, on RepeatSpec.                         *)
(***************************************************************************)
\* the call that repeats the input of the first call has returned
Again == hist # <<>> /\ hist.call = "again" /\ pc = "done"

\* malloc succeeded and failed at the same places as in the first call
SameAllocation == allocated = hist.first.allocated

\* the call was aborted by an allocation failure: it printed the message
\* on stderr and wrote nothing to the text buffer
AbortedNow == Len(errlog) > hist.errlen

\* qsort put the entries that compare equal in the order it put them in
\* during the first call
SameSort == results = hist.first.results

Swapped(k, x, y) ==
    LET sx == networks[k][x].src
        sy == networks[k][y].src
    IN  /\ x # y
        /\ sx.op # "base" /\ sx.op = sy.op
        /\ sx.i = sy.j /\ sx.a = sy.b
        /\ sx.j = sy.i /\ sx.b = sy.a

\* C25 (as claimed): every network stored in a bucket k >= 2 comes from a
\* split (i, j) with i <= j, and no bucket holds two networks built from
\* the same two sub-networks with the operands swapped.
C25_SplitsOnlyLowFirst ==
    \A k \in 2..MAX_N : \A x \in Stored(k) :
        /\ networks[k][x].src.i <= networks[k][x].src.j
        /\ \A y \in Stored(k) : ~Swapped(k, x, y)

\* bucket k before the step is a prefix of bucket k after it
Extended(k) ==
    /\ Len(networks'[k]) >= Len(networks[k])
    /\ SubSeq(networks'[k], 1, Len(networks[k])) = networks[k]
    /\ count'[k] >= count[k]

\* the bucket the handler is filling, if any
Filling ==
    IF pc = "base" THEN {1}
    ELSE IF pc \in {"n_loop", "i_loop", "a_loop", "b_loop"} THEN {n}
    ELSE {}

\* entry e, new in bucket k, is made of two stored entries of smaller
\* buckets whose sizes add up to k, and of nothing else
FromSmaller(k, e) ==
    /\ e.src.i \in 1..(k - 1)
    /\ e.src.j \in 1..(k - 1)
    /\ e.src.i + e.src.j = k
    /\ e.src.a + 1 \in Stored(e.src.i)
    /\ e.src.b + 1 \in Stored(e.src.j)
    /\ LET A == networks[e.src.i][e.src.a + 1]
           B == networks[e.src.j][e.src.b + 1]
       IN  /\ e.n = A.n + B.n
           /\ e.parts = A.parts \o B.parts
           /\ e.expr[2] = A.expr
           /\ e.expr[3] = B.expr
           /\ e.R = (IF e.src.op = "series" THEN RAdd(A.R, B.R)
                     ELSE RDiv(RMul(A.R, B.R), RAdd(A.R, B.R)))

\* what one step of the handler does to the buckets
BottomUpStep ==
    \A k \in 0..MAX_N :
        \* no bucket shrinks and no stored network is changed
        /\ Extended(k)
        \* only the bucket being filled changes
        /\ (networks'[k] # networks[k] \/ count'[k] # count[k]) =>
               k \in Filling
        \* a new entry of a bucket k >= 2 reads smaller buckets only
        /\ k >= 2 =>
               \A x \in (Len(networks[k]) + 1)..Len(networks'[k]) :
                   FromSmaller(k, networks'[k][x])

\* C26: in every step of a calculation, only the bucket being built (and
\* its count) changes, it only grows, the networks already stored in any
\* bucket stay as they are, and every network added to bucket n is computed
\* from one stored entry of bucket i and one of bucket n - i, both smaller
\* than n; so once the construction has moved on to size n + 1, buckets
\* 1..n and their counts are never modified again.
C26_BottomUpFrame == [][BottomUpStep]_vars

\* the last bucket is being filled from the smaller ones, which all hold
\* entries, while the loop is at a split with operands of different sizes
C26_Witness ==
    /\ pc = "b_loop" /\ n = MAX_N /\ i = 2
    /\ \A k \in 1..MAX_N : count[k] > 0
    /\ networks[n][count[n]].src.i = 1
    /\ networks[n][count[n]].src.j = MAX_N - 1

(***************************************************************************)
(* Claims on the report, on Spec.                                          *)
(***************************************************************************)
IsResultLine(l) == l.kind = "result"

\* the result lines of the report, in the order they were written
ResultRows == SelectSeq(output, IsResultLine)

\* the report has a line of the given kind for result k (0-based)
HasLineFor(kind, k) ==
    \E l \in 1..Len(output) : output[l].kind = kind /\ output[l].idx = k

Within001(x, y) ==
    LET d == RSub(x, y)
    IN  100 * Abs(d[1]) < d[2]

\* the values of the code lines of result k (0-based), in order
Listed(k) ==
    LET IsCodeOf(e) == e.kind = "code" /\ e.idx = k
        lines == SelectSeq(output, IsCodeOf)
    IN  [x \in 1..Len(lines) |-> lines[x].value]

\* the positions among the first p parts that are not within 0.01 of a
\* part kept before them
RECURSIVE Kept(_, _)
Kept(parts, p) ==
    IF p = 0 THEN {}
    ELSE LET before == Kept(parts, p - 1)
         IN  IF \E q \in before : Within001(parts[q], parts[p])
             THEN before
             ELSE before \cup {p}

\* the values at the given positions, in the order of the positions
RECURSIVE ValuesAt(_, _, _)
ValuesAt(parts, pos, p) ==
    IF p > Len(parts) THEN <<>>
    ELSE (IF p \in pos THEN <<parts[p]>> ELSE <<>>)
             \o ValuesAt(parts, pos, p + 1)

\* the results that carry component codes in the report written so far
AnnotatedResults ==
    {k \in 0..(TOP_N_CODES - 1) : HasLineFor("blank", k)}

InStandardRange(x) == x[1] > 0 /\ DecLe(<<1, 0>>, x) /\ DecLe(x, <<91, 8>>)

\* the exponents e for which s * 10^e can be x rounded to two or three
\* significant digits, when x is below 10 or 100 the negative ones too
RoundingExps(x) == (FloorLog10(x) - 3)..FloorLog10(x)

\* the value the digits and the multiplier of the code denote
Denoted(c) ==
    IF Len(c.idx) = 2
    THEN <<10 * c.idx[1] + c.idx[2], c.exp10[1]>>
    ELSE <<100 * c.idx[1] + 10 * c.idx[2] + c.idx[3], c.exp10[1]>>

\* the decimals x and y are the same number
SameDecimal(x, y) == Strip(x[1], x[2]) = Strip(y[1], y[2])

\* C29 (as claimed): for every resistance from 1 ohm to 9.1 Gohm the value
\* (10 d1 + d2) * 10^exp10 of the 4-band code is the resistance rounded to
\* two significant digits, and the value (100 d1 + 10 d2 + d3) * 10^exp10
\* of the 5-band code is the resistance rounded to three.
C29_CodeValueFidelity ==
    (CodeCalled /\ InStandardRange(ohms)) =>
        /\ code.fn \in {"get_4band_code", "insert_4band_visual"} =>
               \A e \in RoundingExps(ohms) :
                   \A s \in NearSigs(ohms, e) \cap 10..99 :
                       TwoSigForm(ohms, s, e) =>
                           SameDecimal(Denoted(code), <<s, e>>)
        /\ code.fn \in {"get_5band_code", "insert_5band_visual"} =>
               \A e \in RoundingExps(ohms) :
                   \A s \in NearSigs(ohms, e) \cap 100..999 :
                       ThreeSigForm(ohms, s, e) =>
                           SameDecimal(Denoted(code), <<s, e>>)

\* twice the distance between x = m * 10^e and t tenths is at most one
\* tenth: |x - t / 10| <= 0.05
WithinHalfTenth(x, t) ==
    IF x[2] >= 0
    THEN 10 * x[1] * Pow10(x[2]) = t
    ELSE LET unit == Pow10(-x[2] - 1)
         IN  2 * Abs(x[1] - t * unit) <= unit

\* C30 (as claimed): for 0 < ohms < 10 the SMD text is w R f with w the
\* integer part of ohms and f one digit, and w + f / 10 is ohms rounded to
\* one decimal place: it differs from ohms by at most 0.05, also when the
\* first decimal rounds up to the next whole number.
C30_SmdRNotation ==
    (CodeCalled /\ code.fn = "get_smd_code" /\ ohms[1] > 0 /\ BelowTen(ohms)) =>
        /\ Len(code.text) = 3
        /\ code.text[2] = "R"
        /\ isdigit(code.text[1]) /\ isdigit(code.text[3])
        /\ DigitVal(code.text[1]) = Whole(ohms)
        /\ WithinHalfTenth(ohms, 10 * DigitVal(code.text[1])
                                     + DigitVal(code.text[3]))
====
